---------------------------- MODULE Spec2Model ----------------------------
(***************************************************************************)
(* A model of the law search system (find_law.py, app.py):                 *)
(*   - FindLawProcessor.extract_pdf_content  (document structuring)        *)
(*   - FindLawProcessor.build_index          (index builder)               *)
(*   - FindLawProcessor.search               (search engine)               *)
(*   - FindLawProcessor.get_law_types        (type catalog)                *)
(*                                                                         *)
(* Strings are sequences of one-character strings.  The Chinese glyphs the *)
(* code looks for are written as tokens, one token per glyph:              *)
(*   "DI" = di (ordinal prefix), "ZHANG" = zhang (chapter),                *)
(*   "TIAO" = tiao (article), "LING","YI","ER",...,"QIAN" = the numerals   *)
(*   of the character class in extract_article_title.                      *)
(* Offsets are 0-based and slices are half-open, as in Python.             *)
(***************************************************************************)
EXTENDS Integers, Sequences, FiniteSets, TLC

VARIABLES
    \* ---- the file system
    pdf_dir_exists,     \* os.path.exists(self.pdf_dir)
    dir_files,          \* the files in pdf_dir (a set of file records)
    index_file,         \* the index artifact, or NoIndex when the file is absent
    \* ---- one call of search / get_law_types / build_index
    pc,                 \* position of the running search call, "idle" when none
    keyword, law_type,  \* arguments of the running search
    data,               \* data["laws"] as loaded by search
    law_idx, item_idx,  \* positions of the two for loops (1-based)
    start,              \* `start` of the while loop
    scans,              \* iterations of the while loop on the current unit
    matched_articles,   \* the dict of search, in insertion order
    matched_pages,      \* matched_pages of the current law
    results,            \* the results list of search
    ret,                \* what the last completed call returned
    lazy_builds,        \* build_index runs triggered by search/get_law_types
                        \* since the last change made from outside those calls
    \* ---- one run of extract_pdf_content, line by line
    fed,                \* the lines read so far, each with its page index
    page_num,           \* page_num of enumerate(doc)
    articles,           \* the articles list
    current_article     \* index into articles of current_article, 0 for None

fsVars     == <<pdf_dir_exists, dir_files, index_file>>
callVars   == <<pc, keyword, law_type, data, law_idx, item_idx, start, scans,
                matched_articles, matched_pages, results, ret, lazy_builds>>
structVars == <<fed, page_num, articles, current_article>>
vars       == <<fsVars, callVars, structVars>>

---------------------------------------------------------------------------
(* Bounds of the model *)

\* files the directory holds at most
MaxFiles == 3
\* iterations of the while loop of search the model follows on one unit
MaxScan == 4
\* lines read in one run of the structurer
MaxLinesFed == 4
\* pages of one document in one run of the structurer
MaxPagesFed == 2

---------------------------------------------------------------------------
(* Python string primitives *)

Min(a, b) == IF a < b THEN a ELSE b
Max(a, b) == IF a > b THEN a ELSE b

\* s[a:b] for 0 <= a
Slice(s, a, b) == SubSeq(s, a + 1, Min(b, Len(s)))

UpperAlpha == <<"A","B","C","D","E","F","G","H","I","J","K","L","M",
                "N","O","P","Q","R","S","T","U","V","W","X","Y","Z">>
LowerAlpha == <<"a","b","c","d","e","f","g","h","i","j","k","l","m",
                "n","o","p","q","r","s","t","u","v","w","x","y","z">>

\* the lower-case letter of each upper-case letter
LowerTable ==
    [c \in {UpperAlpha[i] : i \in DOMAIN UpperAlpha} |->
        LowerAlpha[CHOOSE i \in DOMAIN UpperAlpha : UpperAlpha[i] = c]]

LowerChar(c) == IF c \in DOMAIN LowerTable THEN LowerTable[c] ELSE c

\* str.lower()
Lower(s) == [i \in DOMAIN s |-> LowerChar(s[i])]

Whitespace == {" ", "\t", "\n", "\r"}

\* str.strip()
Strip(s) ==
    LET keep == {i \in DOMAIN s : s[i] \notin Whitespace}
    IN  IF keep = {} THEN <<>>
        ELSE LET lo == CHOOSE i \in keep : \A j \in keep : i <= j
                 hi == CHOOSE i \in keep : \A j \in keep : j <= i
             IN  SubSeq(s, lo, hi)

\* text.find(sub, from): the lowest offset >= from where sub occurs, else -1
Find(text, sub, from) ==
    LET hits == {i \in from .. (Len(text) - Len(sub)) :
                    Slice(text, i, i + Len(sub)) = sub}
    IN  IF hits = {} THEN -1
        ELSE CHOOSE i \in hits : \A j \in hits : i <= j

\* sub in text
Contains(text, sub) == Find(text, sub, 0) # -1

\* s.endswith(suffix)
EndsWith(s, suffix) ==
    /\ Len(suffix) <= Len(s)
    /\ SubSeq(s, Len(s) - Len(suffix) + 1, Len(s)) = suffix

\* s.split(sep) for a one-character sep
RECURSIVE Split(_, _)
Split(s, sep) ==
    LET at == Find(s, <<sep>>, 0)
    IN  IF at = -1 THEN <<s>>
        ELSE <<Slice(s, 0, at)>> \o Split(Slice(s, at + 1, Len(s)), sep)

\* os.path.splitext(filename)[0]: the name up to its last dot, the whole
\* name when the only dots are leading ones or there is none
SplitExtRoot(filename) ==
    LET dots == {i \in DOMAIN filename :
                    /\ filename[i] = "."
                    /\ \E j \in 1 .. (i - 1) : filename[j] # "."}
    IN  IF dots = {} THEN filename
        ELSE SubSeq(filename, 1, (CHOOSE i \in dots : \A j \in dots : j <= i) - 1)

---------------------------------------------------------------------------
(* extract_pdf_content: the structuring of one document *)

\* "第" in line and "章" in line
IsChapterLine(line) == Contains(line, <<"DI">>) /\ Contains(line, <<"ZHANG">>)
\* "第" in line and "条" in line
IsArticleLine(line) == Contains(line, <<"DI">>) /\ Contains(line, <<"TIAO">>)

\* a chapter branch that forgets the reset
ChapterKeepsCurrent(before) == before
\* the chapter branch resets current_article to None
ChapterResetsTo(before) == 0

\* The body of `for line in lines` on the state (articles, current_article):
\* raw is one element of text.split('\n'), page the value of page_num.
ProcessLine(arts, cur, raw, page) ==
    LET line == Strip(raw)
    IN  IF IsChapterLine(line)
        THEN [articles |-> Append(arts, [type |-> "chapter", content |-> line,
                                         page |-> page + 1]),
              current_article |-> ChapterResetsTo(cur)]
        ELSE IF IsArticleLine(line)
        THEN [articles |-> Append(arts, [type |-> "article",
                                         content |-> line \o <<" ">>,
                                         page |-> page + 1]),
              current_article |-> Len(arts) + 1]
        ELSE IF cur # 0 /\ line # <<>>
        THEN [articles |-> [arts EXCEPT ![cur].content = @ \o line \o <<" ">>],
              current_article |-> cur]
        ELSE [articles |-> arts, current_article |-> cur]

RECURSIVE ProcessLines(_, _, _, _)
\* for line in lines
ProcessLines(arts, cur, lines, page) ==
    IF lines = <<>> THEN [articles |-> arts, current_article |-> cur]
    ELSE LET s == ProcessLine(arts, cur, Head(lines), page)
         IN  ProcessLines(s.articles, s.current_article, Tail(lines), page)

RECURSIVE ProcessPages(_, _, _, _)
\* for page_num, page in enumerate(doc), from page index `page` on
ProcessPages(arts, cur, pages, page) ==
    IF page >= Len(pages) THEN arts
    ELSE LET text == pages[page + 1]
             s == IF Strip(text) # <<>>
                  THEN ProcessLines(arts, cur, Split(text, "\n"), page)
                  ELSE [articles |-> arts, current_article |-> cur]
         IN  ProcessPages(s.articles, s.current_article, pages, page + 1)

\* the year of a file name without a second "_" segment: datetime.now().year
CurrentYear == <<"n","o","w">>

\* what extract_pdf_content returns when nothing usable was extracted
None == [none |-> TRUE]

\* extract_pdf_content(pdf_path) on a file record
\*   [filename, readable (fitz.open succeeds), pages (page.get_text() of each)]
extract_pdf_content(file) ==
    IF ~file.readable THEN None
    ELSE LET arts  == ProcessPages(<<>>, 0, file.pages, 0)
             parts == Split(SplitExtRoot(file.filename), "_")
         IN  IF arts = <<>> THEN None
             ELSE [title       |-> parts[1],
                   year        |-> IF Len(parts) > 1 THEN parts[2] ELSE CurrentYear,
                   filename    |-> file.filename,
                   content     |-> arts,
                   total_pages |-> Len(file.pages)]

---------------------------------------------------------------------------
(* The files the directory may hold *)

DiYiTiao == <<"DI","YI","TIAO">>
LongLine == <<"x","x","x","x","x","x","x","x","x","x","x","x","x","x","x",
              "x","x","x","x","x","x","x","x","x","x","x","x","x","x","x">>

\* X_9.docx: a chapter, then two article lines that both start with the
\* label of article one and both hold "ab", the second on page 2
FileA == [filename |-> <<"X","_","9",".","d","o","c","x">>, readable |-> TRUE,
          pages |-> << <<"DI","YI","ZHANG","\n">> \o DiYiTiao \o <<"a","b">>,
                       DiYiTiao \o <<"b","a","b">> >>]
\* x.PDF: a dropped leading line, one article with a continuation line,
\* and a blank page
FileB == [filename |-> <<"x",".","P","D","F">>, readable |-> TRUE,
          pages |-> << <<" ","z","z"," ","\n","DI","ER","TIAO","A","b","\n",
                         "c","a","b">>,
                       <<" ","\n"," ">> >>]
\* Y_8.pdf: an article whose number is no Chinese numeral, longer than the
\* 30 characters of the fallback label
FileC == [filename |-> <<"Y","_","8",".","p","d","f">>, readable |-> TRUE,
          pages |-> << <<"DI","1","TIAO","a","b","\n">> \o LongLine >>]
\* d.pdf: a file fitz.open fails on
FileD == [filename |-> <<"d",".","p","d","f">>, readable |-> FALSE,
          pages |-> <<>>]
\* e.docx: opens, and holds neither a chapter nor an article line
FileE == [filename |-> <<"e",".","d","o","c","x">>, readable |-> TRUE,
          pages |-> << <<"a","b","\n","\n","z","z">> >>]
\* X_9.txt: well-formed content under an extension that is not indexed
FileF == [filename |-> <<"X","_","9",".","t","x","t">>, readable |-> TRUE,
          pages |-> << DiYiTiao \o <<"a","b">> >>]

Catalogue == {FileA, FileB, FileC, FileD, FileE, FileF}

\* the q parameter after .strip(): empty, or "aB"
Keywords == {<<>>, <<"a","B">>}
\* the type parameter
All == <<"a","l","l">>
LawTypes == {All, <<"x">>, <<"Y">>}

---------------------------------------------------------------------------
(* build_index *)

NoIndex == [absent |-> TRUE]

\* os.listdir returns the entries in arbitrary order
Listings(files) ==
    {l \in [1 .. Cardinality(files) -> files] :
        \A i, j \in DOMAIN l : i # j => l[i] # l[j]}

\* the extension test without .lower()
IsAcceptedCaseSensitive(filename) ==
    \/ EndsWith(filename, <<".","p","d","f">>)
    \/ EndsWith(filename, <<".","d","o","c","x">>)
\* filename.lower().endswith(".pdf") or filename.lower().endswith(".docx")
IsAccepted(filename) ==
    \/ EndsWith(Lower(filename), <<".","p","d","f">>)
    \/ EndsWith(Lower(filename), <<".","d","o","c","x">>)

\* self.extract_pdf_content(file_path) for each file the directory may hold
law_info_of == [file \in Catalogue |-> extract_pdf_content(file)]

RECURSIVE ScanDirectory(_, _, _)
\* for filename in os.listdir(self.pdf_dir): ..., from the lists so far
ScanDirectory(listing, index_data, invalid_files) ==
    IF listing = <<>>
    THEN [index_data |-> index_data, invalid_files |-> invalid_files]
    ELSE LET file == Head(listing)
             law_info == law_info_of[file]
         IN  IF ~IsAccepted(file.filename)
             THEN ScanDirectory(Tail(listing), index_data, invalid_files)
             ELSE IF law_info # None
             THEN ScanDirectory(Tail(listing), Append(index_data, law_info),
                                invalid_files)
             ELSE ScanDirectory(Tail(listing), index_data,
                                Append(invalid_files, file.filename))

\* the object json.dump writes (index_date, a timestamp, is left out)
Artifact(scan) ==
    [metadata |-> [total_count   |-> Len(scan.index_data),
                   source        |-> "local files",
                   invalid_files |-> scan.invalid_files],
     laws |-> scan.index_data]

\* what build_index returns, given the directory listing
BuildReturn(listing) ==
    IF ~pdf_dir_exists THEN <<>>
    ELSE ScanDirectory(listing, <<>>, <<>>).index_data

\* the summary line build_index prints: the directory was missing and has
\* been created, or the count of the files indexed
BuildPrinted == IF ~pdf_dir_exists THEN "directory created" ELSE "indexed"

\* the effect of build_index on the file system
BuildEffect(listing) ==
    /\ pdf_dir_exists' = TRUE
    /\ dir_files' = dir_files
    /\ index_file' = IF ~pdf_dir_exists THEN index_file
                     ELSE Artifact(ScanDirectory(listing, <<>>, <<>>))

---------------------------------------------------------------------------
(* search: labels, highlighting, ordering *)

Numerals == {"LING","YI","ER","SAN","SI","WU","LIU","QI","BA","JIU","SHI",
             "BAI","QIAN"}

\* re.search(r'第[零一二三四五六七八九十百千]+<closer>', content): the set of
\* <<offset, length>> of the matches at each offset
NumberedAt(content, closer) ==
    {m \in (0 .. Len(content)) \X (3 .. Max(3, Len(content))) :
        /\ m[1] + m[2] <= Len(content)
        /\ content[m[1] + 1] = "DI"
        /\ \A k \in (m[1] + 2) .. (m[1] + m[2] - 1) : content[k] \in Numerals
        /\ content[m[1] + m[2]] = closer}

\* the leftmost match, as re.search returns it (<<>> for no match)
NumberedFirst(content, closer) ==
    LET ms == NumberedAt(content, closer)
    IN  IF ms = {} THEN <<>>
        ELSE LET m == CHOOSE m \in ms : \A n \in ms : m[1] <= n[1]
             IN  Slice(content, m[1], m[1] + m[2])

TitleMaxLen == 30

extract_article_title(content) ==
    IF NumberedFirst(content, "TIAO") # <<>> THEN NumberedFirst(content, "TIAO")
    ELSE IF NumberedFirst(content, "ZHANG") # <<>>
    THEN NumberedFirst(content, "ZHANG")
    ELSE IF Len(content) > TitleMaxLen
    THEN Slice(content, 0, TitleMaxLen) \o <<".",".",".">>
    ELSE content

OpenTag  == <<"<","s","p","a","n"," ","c","l","a","s","s","=","\"","h","i","g",
              "h","l","i","g","h","t","\"",">">>
CloseTag == <<"<","/","s","p","a","n",">">>

RECURSIVE SortedByStartDesc(_)
\* sorted(matches, key=lambda x: x["start"], reverse=True): stable
SortedByStartDesc(matches) ==
    IF matches = <<>> THEN <<>>
    ELSE LET n    == Len(matches)
             rest == SortedByStartDesc(SubSeq(matches, 1, n - 1))
             x    == matches[n]
             k    == Cardinality({i \in DOMAIN rest : rest[i].start >= x.start})
         IN  SubSeq(rest, 1, k) \o <<x>> \o SubSeq(rest, k + 1, Len(rest))

RECURSIVE InsertTags(_, _)
\* for match in matches_sorted: wrap highlighted_text[start:end]
InsertTags(highlighted_text, matches_sorted) ==
    IF matches_sorted = <<>> THEN highlighted_text
    ELSE LET m == Head(matches_sorted)
         IN  InsertTags(Slice(highlighted_text, 0, m.start) \o OpenTag
                          \o Slice(highlighted_text, m.start, m.end) \o CloseTag
                          \o Slice(highlighted_text, m.end, Len(highlighted_text)),
                        Tail(matches_sorted))

highlight_all_keywords(text, matches) ==
    InsertTags(text, SortedByStartDesc(matches))

RECURSIVE SortedByTotalMatchesAsc(_)
\* the ordering with the comparison turned around
SortedByTotalMatchesAsc(rs) ==
    IF rs = <<>> THEN <<>>
    ELSE LET n    == Len(rs)
             rest == SortedByTotalMatchesAsc(SubSeq(rs, 1, n - 1))
             x    == rs[n]
             k    == Cardinality({i \in DOMAIN rest :
                                    rest[i].total_matches <= x.total_matches})
         IN  SubSeq(rest, 1, k) \o <<x>> \o SubSeq(rest, k + 1, Len(rest))

\* sort ascending, then reverse: descending, with ties turned around
SortedByTotalMatchesDescReversingTies(rs) ==
    LET asc == SortedByTotalMatchesAsc(rs)
    IN  [i \in DOMAIN asc |-> asc[Len(asc) + 1 - i]]

RECURSIVE SortedByTotalMatchesDesc(_)
\* sorted(results, key=lambda x: x["total_matches"], reverse=True): stable
SortedByTotalMatchesDesc(rs) ==
    IF rs = <<>> THEN <<>>
    ELSE LET n    == Len(rs)
             rest == SortedByTotalMatchesDesc(SubSeq(rs, 1, n - 1))
             x    == rs[n]
             k    == Cardinality({i \in DOMAIN rest :
                                    rest[i].total_matches >= x.total_matches})
         IN  SubSeq(rest, 1, k) \o <<x>> \o SubSeq(rest, k + 1, Len(rest))

RECURSIVE SumMatchCount(_)
\* sum(page["match_count"] for page in matched_pages)
SumMatchCount(pages) ==
    IF pages = <<>> THEN 0
    ELSE Head(pages).match_count + SumMatchCount(Tail(pages))

\* the filter comparing the raw strings
FilteredOutCaseSensitive(law, lt) == lt # All /\ law.title # lt
\* law_type != "all" and law["title"].lower() != law_type.lower()
FilteredOut(law, lt) == lt # All /\ Lower(law.title) # Lower(lt)

\* position of the entry of matched_articles with this title, 0 when absent
EntryOf(matched, title) ==
    IF \E i \in DOMAIN matched : matched[i].title = title
    THEN CHOOSE i \in DOMAIN matched : matched[i].title = title
    ELSE 0

\* a grouping that takes the text of every unit it sees
OverwriteUnit(matched, title, content) ==
    IF EntryOf(matched, title) = 0
    THEN Append(matched, [title |-> title, content |-> content, matches |-> <<>>])
    ELSE [matched EXCEPT ![EntryOf(matched, title)].content = content]

\* if article_title not in matched_articles: matched_articles[article_title] = ...
RecordUnit(matched, title, content) ==
    IF EntryOf(matched, title) = 0
    THEN Append(matched, [title |-> title, content |-> content, matches |-> <<>>])
    ELSE matched

\* the matched_pages list built from matched_articles
PagesOf(matched, kw) ==
    [i \in DOMAIN matched |->
        [title        |-> matched[i].title,
         snippet      |-> highlight_all_keywords(matched[i].content,
                                                 matched[i].matches),
         matched_term |-> kw,
         match_count  |-> Len(matched[i].matches)]]

---------------------------------------------------------------------------
(* The program: file system, build_index, search, get_law_types *)

\* ret: the operation, whether it raised, its return value and, for
\* build_index, which of its two summary lines it printed
NoRet == [op |-> "none", raised |-> FALSE, value |-> <<>>]

CallIdle ==
    /\ pc' = "idle"
    /\ keyword' = <<>>
    /\ law_type' = All
    /\ data' = <<>>
    /\ law_idx' = 0
    /\ item_idx' = 0
    /\ start' = 0
    /\ scans' = 0
    /\ matched_articles' = <<>>
    /\ matched_pages' = <<>>
    /\ results' = <<>>

StructInit ==
    /\ fed = <<>>
    /\ page_num = 0
    /\ articles = <<>>
    /\ current_article = 0

\* FindLawProcessor(): _ensure_directories has created pdf_dir; no index yet
Init ==
    /\ pdf_dir_exists = TRUE
    /\ dir_files = {}
    /\ index_file = NoIndex
    /\ pc = "idle"
    /\ keyword = <<>>
    /\ law_type = All
    /\ data = <<>>
    /\ law_idx = 0
    /\ item_idx = 0
    /\ start = 0
    /\ scans = 0
    /\ matched_articles = <<>>
    /\ matched_pages = <<>>
    /\ results = <<>>
    /\ ret = NoRet
    /\ lazy_builds = 0
    /\ StructInit

\* ---- changes made from outside the program

\* a file is put into the document directory
AddFile(file) ==
    /\ pc = "idle"
    /\ pdf_dir_exists
    /\ file \notin dir_files
    /\ Cardinality(dir_files) < MaxFiles
    /\ dir_files' = dir_files \cup {file}
    /\ UNCHANGED <<pdf_dir_exists, index_file>>
    /\ CallIdle /\ ret' = NoRet /\ lazy_builds' = 0
    /\ UNCHANGED structVars

\* the document directory is removed with what it holds
RemoveDir ==
    /\ pc = "idle"
    /\ pdf_dir_exists
    /\ pdf_dir_exists' = FALSE
    /\ dir_files' = {}
    /\ UNCHANGED index_file
    /\ CallIdle /\ ret' = NoRet /\ lazy_builds' = 0
    /\ UNCHANGED structVars

\* the index file is removed
RemoveIndex ==
    /\ pc = "idle"
    /\ index_file # NoIndex
    /\ index_file' = NoIndex
    /\ UNCHANGED <<pdf_dir_exists, dir_files>>
    /\ CallIdle /\ ret' = NoRet /\ lazy_builds' = 0
    /\ UNCHANGED structVars

\* ---- the operations

\* law_processor.build_index() (app.py __main__, import_data.main)
BuildIndexCall ==
    /\ pc = "idle"
    /\ \E listing \in Listings(dir_files) :
          /\ BuildEffect(listing)
          /\ ret' = [op |-> "build_index", raised |-> FALSE,
                     value |-> BuildReturn(listing),
                     printed |-> BuildPrinted]
    /\ CallIdle /\ lazy_builds' = 0
    /\ UNCHANGED structVars

\* if not os.path.exists(self.index_file): self.build_index()
LazyBuild ==
    IF index_file = NoIndex
    THEN /\ \E listing \in Listings(dir_files) : BuildEffect(listing)
         /\ lazy_builds' = lazy_builds + 1
    ELSE /\ UNCHANGED fsVars
         /\ UNCHANGED lazy_builds

\* get_law_types(): the distinct titles (a set)
GetLawTypesCall ==
    /\ pc = "idle"
    /\ LazyBuild
    /\ ret' = IF index_file' = NoIndex
              THEN [op |-> "get_law_types", raised |-> TRUE, value |-> {}]
              ELSE [op |-> "get_law_types", raised |-> FALSE,
                    value |-> {index_file'.laws[i].title :
                                  i \in DOMAIN index_file'.laws}]
    /\ CallIdle
    /\ UNCHANGED structVars

\* search(keyword, law_type), up to the first for loop: the index is built
\* when missing, then opened (open raises when it is still missing)
SearchCall(kw, lt) ==
    /\ pc = "idle"
    /\ LazyBuild
    /\ IF index_file' = NoIndex
       THEN /\ CallIdle
            /\ ret' = [op |-> "search", raised |-> TRUE, value |-> <<>>]
       ELSE /\ pc' = "law"
            /\ keyword' = kw
            /\ law_type' = lt
            /\ data' = index_file'.laws
            /\ law_idx' = 1
            /\ item_idx' = 0
            /\ start' = 0
            /\ scans' = 0
            /\ matched_articles' = <<>>
            /\ matched_pages' = <<>>
            /\ results' = <<>>
            /\ ret' = NoRet
    /\ UNCHANGED structVars

\* for law in data["laws"]: the head of the loop, the type filter, and the
\* return after the loop
SearchLaw ==
    /\ pc = "law"
    /\ IF law_idx > Len(data)
       THEN /\ ret' = [op |-> "search", raised |-> FALSE,
                       value |-> IF results = <<>> THEN <<>>
                                 ELSE SortedByTotalMatchesDesc(results)]
            /\ pc' = "idle"
            /\ UNCHANGED <<law_idx, item_idx, matched_articles, matched_pages>>
       ELSE IF FilteredOut(data[law_idx], law_type)
       THEN /\ law_idx' = law_idx + 1
            /\ UNCHANGED <<pc, ret, item_idx, matched_articles, matched_pages>>
       ELSE /\ matched_articles' = <<>>
            /\ matched_pages' = <<>>
            /\ item_idx' = 1
            /\ pc' = "item"
            /\ UNCHANGED <<law_idx, ret>>
    /\ UNCHANGED <<keyword, law_type, data, start, scans, results, lazy_builds>>
    /\ UNCHANGED <<fsVars, structVars>>

\* for item in law["content"]: the containment test and the creation of the
\* entry; after the loop, the matched_pages of the law
SearchItem ==
    /\ pc = "item"
    /\ LET content == data[law_idx].content
       IN  IF item_idx > Len(content)
           THEN /\ matched_pages' = PagesOf(matched_articles, keyword)
                /\ pc' = "append"
                /\ UNCHANGED <<item_idx, matched_articles, start, scans>>
           ELSE IF Contains(Lower(content[item_idx].content), Lower(keyword))
           THEN /\ matched_articles' =
                      RecordUnit(matched_articles,
                                 extract_article_title(content[item_idx].content),
                                 content[item_idx].content)
                /\ start' = 0
                /\ scans' = 0
                /\ pc' = "scan"
                /\ UNCHANGED <<item_idx, matched_pages>>
           ELSE /\ item_idx' = item_idx + 1
                /\ UNCHANGED <<pc, matched_articles, matched_pages, start, scans>>
    /\ UNCHANGED <<keyword, law_type, data, law_idx, results, ret, lazy_builds>>
    /\ UNCHANGED <<fsVars, structVars>>

\* one iteration of `while True`: find, then break or record the span
SearchScan ==
    /\ pc = "scan"
    /\ scans < MaxScan
    /\ LET content == data[law_idx].content[item_idx].content
           idx     == Find(Lower(content), Lower(keyword), start)
           e       == EntryOf(matched_articles, extract_article_title(content))
       IN  IF idx = -1
           THEN /\ item_idx' = item_idx + 1
                /\ pc' = "item"
                /\ UNCHANGED <<matched_articles, start, scans>>
           ELSE /\ matched_articles' =
                      [matched_articles EXCEPT ![e].matches =
                          Append(@, [start |-> idx,
                                     end |-> idx + Len(Lower(keyword))])]
                /\ start' = idx + Len(Lower(keyword))
                /\ scans' = scans + 1
                /\ UNCHANGED <<pc, item_idx>>
    /\ UNCHANGED <<keyword, law_type, data, law_idx, matched_pages, results,
                   ret, lazy_builds>>
    /\ UNCHANGED <<fsVars, structVars>>

\* if matched_pages: results.append(...), and on to the next law
SearchAppend ==
    /\ pc = "append"
    /\ results' =
          IF matched_pages = <<>> THEN results
          ELSE Append(results,
                      [title         |-> data[law_idx].title,
                       year          |-> data[law_idx].year,
                       filename      |-> data[law_idx].filename,
                       total_pages   |-> data[law_idx].total_pages,
                       matched_pages |-> matched_pages,
                       total_matches |-> SumMatchCount(matched_pages)])
    /\ law_idx' = law_idx + 1
    /\ pc' = "law"
    /\ UNCHANGED <<keyword, law_type, data, item_idx, start, scans,
                   matched_articles, matched_pages, ret, lazy_builds>>
    /\ UNCHANGED <<fsVars, structVars>>

Next ==
    \/ \E file \in Catalogue : AddFile(file)
    \/ RemoveDir
    \/ RemoveIndex
    \/ BuildIndexCall
    \/ GetLawTypesCall
    \/ \E kw \in Keywords, lt \in LawTypes : SearchCall(kw, lt)
    \/ SearchLaw
    \/ SearchItem
    \/ SearchScan
    \/ SearchAppend

Spec == Init /\ [][Next]_vars

---------------------------------------------------------------------------
(* One run of extract_pdf_content, followed line by line *)

\* lines as text.split('\n') yields them, before line.strip()
SampleLines ==
    { <<"DI","YI","ZHANG">>,              \* a chapter line
      <<" ","DI","YI","TIAO","a"," ">>,   \* an article line inside blanks
      <<"DI","ER","TIAO","ZHANG">>,       \* both glyphs: the chapter test is first
      <<"TIAO","DI">>,                    \* the glyphs in the other order
      <<"b">>,                            \* a line with no glyph
      <<" ">> }                           \* a blank line

\* the body of the inner loop on the next line of the current page
ReadLine(raw) ==
    /\ Len(fed) < MaxLinesFed
    /\ LET s == ProcessLine(articles, current_article, raw, page_num)
       IN  /\ articles' = s.articles
           /\ current_article' = s.current_article
    /\ fed' = Append(fed, [line |-> raw, page |-> page_num])
    /\ UNCHANGED page_num
    /\ UNCHANGED <<fsVars, callVars>>

\* the outer loop moves to the next page
NextPage ==
    /\ page_num + 1 < MaxPagesFed
    /\ page_num' = page_num + 1
    /\ UNCHANGED <<fed, articles, current_article>>
    /\ UNCHANGED <<fsVars, callVars>>

NextStruct ==
    \/ \E raw \in SampleLines : ReadLine(raw)
    \/ NextPage

SpecStruct == Init /\ [][NextStruct]_vars

---------------------------------------------------------------------------
(* Vocabulary of the properties, stated without the code's loops *)

\* the glyph g occurs in the line
HasGlyph(line, g) == \E k \in DOMAIN line : line[k] = g

\* kw occurs in text at offset o, case-insensitively
OccursAt(text, kw, o) ==
    /\ o + Len(kw) <= Len(text)
    /\ \A k \in 1 .. Len(kw) : LowerChar(text[o + k]) = LowerChar(kw[k])

HasOccurrence(text, kw) == \E o \in 0 .. Len(text) : OccursAt(text, kw, o)

RECURSIVE OccurrencesFrom(_, _, _)
\* the non-overlapping occurrences of a non-empty kw in text from offset o on,
\* left to right, as spans
OccurrencesFrom(text, kw, o) ==
    IF o + Len(kw) > Len(text) THEN <<>>
    ELSE IF OccursAt(text, kw, o)
    THEN <<[start |-> o, end |-> o + Len(kw)]>>
            \o OccurrencesFrom(text, kw, o + Len(kw))
    ELSE OccurrencesFrom(text, kw, o + 1)

\* two spans share a position
Overlap(a, b) == a.start < b.end /\ b.start < a.end

\* the units of a law that hold kw and carry the label, in document order
UnitsLabelled(law, label, kw) ==
    {i \in DOMAIN law.content :
        /\ extract_article_title(law.content[i].content) = label
        /\ HasOccurrence(law.content[i].content, kw)}

RECURSIVE SpansOfUnits(_, _, _)
\* the spans of the units `units` of the law, unit after unit
SpansOfUnits(law, units, kw) ==
    IF units = {} THEN <<>>
    ELSE LET i == CHOOSE i \in units : \A j \in units : i <= j
         IN  OccurrencesFrom(law.content[i].content, kw, 0)
                \o SpansOfUnits(law, units \ {i}, kw)

FirstOf(S) == CHOOSE i \in S : \A j \in S : i <= j
LastOf(S)  == CHOOSE i \in S : \A j \in S : j <= i

RECURSIVE StripTags(_)
\* the snippet with every highlight marker removed
StripTags(s) ==
    IF s = <<>> THEN <<>>
    ELSE IF Len(s) >= Len(OpenTag) /\ SubSeq(s, 1, Len(OpenTag)) = OpenTag
    THEN StripTags(SubSeq(s, Len(OpenTag) + 1, Len(s)))
    ELSE IF Len(s) >= Len(CloseTag) /\ SubSeq(s, 1, Len(CloseTag)) = CloseTag
    THEN StripTags(SubSeq(s, Len(CloseTag) + 1, Len(s)))
    ELSE <<Head(s)>> \o StripTags(Tail(s))

RECURSIVE Segments(_)
\* the highlighted segments of a snippet: what stands between each opening
\* marker and the next closing marker
Segments(s) ==
    LET o == Find(s, OpenTag, 0)
        c == Find(s, CloseTag, o + Len(OpenTag))
    IN  IF o = -1 \/ c = -1 THEN <<>>
        ELSE <<Slice(s, o + Len(OpenTag), c)>>
                \o Segments(Slice(s, c + Len(CloseTag), Len(s)))

\* the position of a returned document in data["laws"]
PosInData(filename) == CHOOSE i \in DOMAIN data : data[i].filename = filename

\* the search call has returned normally
SearchReturned == pc = "idle" /\ ret.op = "search" /\ ~ret.raised

\* the while loop is cut short by the model only where it never ends
ScanBoundOnlyForEmptyKeyword ==
    (pc = "scan" /\ scans = MaxScan) => keyword = <<>>

---------------------------------------------------------------------------
(* C1 *)

\* C1: search with an empty keyword returns the empty sequence, counts no
\* content unit as a match and never enters the occurrence loop.
C1_EmptyKeywordMatchesNothing ==
    keyword = <<>> =>
        /\ pc # "scan"
        /\ matched_articles = <<>>
        /\ (SearchReturned => ret.value = <<>>)

---------------------------------------------------------------------------
(* C2 *)

\* C2: with no index file and nothing changed from outside, search and
\* get_law_types run build_index exactly once between them, and the call
\* that built the index returns its normal result.
C2_ExactlyOneLazyBuild ==
    /\ lazy_builds <= 1
    /\ (lazy_builds >= 1 /\ ret.op \in {"search", "get_law_types"}
            => ~ret.raised)

---------------------------------------------------------------------------
(* C3 *)

\* C3: after a completed build_index the index file exists and holds what
\* the call returned, also when the document directory was missing.
C3_BuildLeavesArtifact ==
    ret.op = "build_index" =>
        /\ index_file # NoIndex
        /\ index_file.laws = ret.value
        /\ index_file.metadata.total_count = Len(ret.value)

---------------------------------------------------------------------------
(* C4 *)

\* C4: the sequence search returns has non-increasing total_matches, and
\* documents with equal total_matches keep the order of the index.
C4_RankedStable ==
    SearchReturned =>
        \A i, j \in DOMAIN ret.value :
            i < j =>
                /\ ret.value[i].total_matches >= ret.value[j].total_matches
                /\ (ret.value[i].total_matches = ret.value[j].total_matches
                        => PosInData(ret.value[i].filename)
                              < PosInData(ret.value[j].filename))

\* a search returned a tie, and a document ranked ahead of an earlier one
C4_Witness ==
    /\ SearchReturned
    /\ \E i, j \in DOMAIN ret.value :
          /\ i < j
          /\ ret.value[i].total_matches = ret.value[j].total_matches
    /\ \E i, j \in DOMAIN ret.value :
          /\ i < j
          /\ PosInData(ret.value[i].filename) > PosInData(ret.value[j].filename)

---------------------------------------------------------------------------
(* C5 *)

\* the entry of matched_articles for each label of the current law is single,
\* counts the matches of all the units with that label, and its snippet is
\* built from the text of the last of them (useLast) or of the first
C5_Grouping(useLast) ==
    (pc = "append" /\ keyword # <<>>) =>
        LET law == data[law_idx]
        IN  /\ \A e, f \in DOMAIN matched_pages :
                  matched_pages[e].title = matched_pages[f].title => e = f
            /\ \A i \in DOMAIN law.content :
                  HasOccurrence(law.content[i].content, keyword) =>
                     \E e \in DOMAIN matched_pages :
                        matched_pages[e].title =
                            extract_article_title(law.content[i].content)
            /\ \A e \in DOMAIN matched_pages :
                  LET units == UnitsLabelled(law, matched_pages[e].title, keyword)
                      spans == SpansOfUnits(law, units, keyword)
                  IN  /\ units # {}
                      /\ matched_pages[e].match_count = Len(spans)
                      /\ matched_pages[e].snippet =
                            highlight_all_keywords(
                                law.content[IF useLast THEN LastOf(units)
                                            ELSE FirstOf(units)].content,
                                spans)

\* C5 (as stated): the snippet of a label shared by several matching units
\* is built from the text of the last such unit.
C5_SnippetFromLastUnit == C5_Grouping(TRUE)

\* C5 (amended): the snippet of a label shared by several matching units is
\* built from the text of the first such unit; the entry is single and its
\* match_count counts the matches of all those units.
C5_SnippetFromFirstUnit == C5_Grouping(FALSE)

\* a law with two matching units under one label, with different texts
C5_Witness ==
    /\ pc = "append"
    /\ keyword # <<>>
    /\ \E e \in DOMAIN matched_pages :
          LET units == UnitsLabelled(data[law_idx], matched_pages[e].title,
                                     keyword)
          IN  /\ Cardinality(units) >= 2
              /\ data[law_idx].content[FirstOf(units)].content
                    # data[law_idx].content[LastOf(units)].content

---------------------------------------------------------------------------
(* C6 *)

\* C6: for every matched_pages entry of a search with a non-empty keyword,
\* the snippet without its markers is the entry's text, it holds match_count
\* highlighted segments, and each segment is the keyword up to case.
C6_SnippetFaithful ==
    (pc = "append" /\ keyword # <<>>) =>
        \A e \in DOMAIN matched_pages :
            LET segs == Segments(matched_pages[e].snippet)
            IN  /\ StripTags(matched_pages[e].snippet)
                      = matched_articles[e].content
                /\ Len(segs) = matched_pages[e].match_count
                /\ \A k \in DOMAIN segs :
                      /\ Lower(segs[k]) = Lower(keyword)
                      /\ Contains(matched_articles[e].content, segs[k])

---------------------------------------------------------------------------
(* C7 *)

\* the file opens and holds a chapter or an article line
Structurable(file) ==
    /\ file.readable
    /\ \E p \in DOMAIN file.pages :
          \E line \in {Split(file.pages[p], "\n")[k] :
                          k \in DOMAIN Split(file.pages[p], "\n")} :
              /\ HasGlyph(line, "DI")
              /\ HasGlyph(line, "ZHANG") \/ HasGlyph(line, "TIAO")

\* the file name ends in .pdf or .docx in any case
AcceptedName(filename) ==
    \E ext \in {<<".","p","d","f">>, <<".","d","o","c","x">>} :
        /\ Len(filename) >= Len(ext)
        /\ \A k \in DOMAIN ext :
              LowerChar(filename[Len(filename) - Len(ext) + k]) = ext[k]

SeqToSet(s) == {s[i] : i \in DOMAIN s}
NoRepeat(s) == \A i, j \in DOMAIN s : s[i] = s[j] => i = j

\* the index splits the accepted files of the directory into laws and
\* invalid_files
IndexPartitions(files, index) ==
    LET accepted == {f.filename : f \in {g \in files : AcceptedName(g.filename)}}
        good     == {f.filename : f \in {g \in files :
                        AcceptedName(g.filename) /\ Structurable(g)}}
        lawNames == [i \in DOMAIN index.laws |-> index.laws[i].filename]
    IN  /\ NoRepeat(lawNames)
        /\ NoRepeat(index.metadata.invalid_files)
        /\ SeqToSet(lawNames) = good
        /\ SeqToSet(index.metadata.invalid_files) = accepted \ good
        /\ \A i \in DOMAIN index.laws : index.laws[i].content # <<>>
        /\ index.metadata.total_count = Len(index.laws)

\* C7: a build_index that runs over the directory writes an index in which
\* every accepted file is in exactly one of laws and invalid_files, in laws
\* exactly when it opened and gave a unit; laws hold no empty content and
\* total_count is their number.
C7_BuildPartitionsFiles ==
    (ret.op = "build_index" /\ ret.printed = "indexed") =>
        (index_file # NoIndex /\ IndexPartitions(dir_files, index_file))

\* a build that indexed a file after meeting a file it could not use
C7_Witness ==
    /\ ret.op = "build_index"
    /\ ret.printed = "indexed"
    /\ index_file # NoIndex
    /\ index_file.laws # <<>>
    /\ index_file.metadata.invalid_files # <<>>
    /\ \E f \in dir_files : ~AcceptedName(f.filename)
    /\ \E f \in dir_files : f.filename # Lower(f.filename)
                            /\ AcceptedName(f.filename)

---------------------------------------------------------------------------
(* C8 *)

\* the law passes the type filter
PassesFilter(law, lt) ==
    lt = All \/ \A k \in 1 .. Max(Len(lt), Len(law.title)) :
                    /\ k <= Len(lt) /\ k <= Len(law.title)
                    /\ LowerChar(lt[k]) = LowerChar(law.title[k])

\* C8: with a lawType other than "all" only documents whose title equals it
\* up to case are scanned and returned; with "all" none is left out by the
\* filter: the documents returned are those that pass it and hold the keyword.
C8_TypeFilterExact ==
    /\ pc \in {"item", "scan", "append"} => PassesFilter(data[law_idx], law_type)
    /\ SearchReturned =>
          {ret.value[i].filename : i \in DOMAIN ret.value}
             = {data[i].filename : i \in
                   {j \in DOMAIN data :
                       /\ PassesFilter(data[j], law_type)
                       /\ \E u \in DOMAIN data[j].content :
                             HasOccurrence(data[j].content[u].content, keyword)}}

\* a search by type returned a document whose title differs in case and left
\* out one that holds the keyword
C8_Witness ==
    /\ SearchReturned
    /\ law_type # All
    /\ \E i \in DOMAIN ret.value : ret.value[i].title # law_type
    /\ \E j \in DOMAIN data :
          /\ ~PassesFilter(data[j], law_type)
          /\ \E u \in DOMAIN data[j].content :
                HasOccurrence(data[j].content[u].content, keyword)

---------------------------------------------------------------------------
(* C9 *)

\* C9: with a non-empty keyword, no two spans recorded for one entry of
\* matched_articles overlap.
C9_SpansDisjoint ==
    keyword # <<>> =>
        \A e \in DOMAIN matched_articles :
            \A i, j \in DOMAIN matched_articles[e].matches :
                i # j => ~Overlap(matched_articles[e].matches[i],
                                  matched_articles[e].matches[j])

---------------------------------------------------------------------------
(* C10 *)

LineAt(i) == Strip(fed[i].line)
IsMarker(i) ==
    /\ HasGlyph(LineAt(i), "DI")
    /\ HasGlyph(LineAt(i), "ZHANG") \/ HasGlyph(LineAt(i), "TIAO")
Markers == {i \in DOMAIN fed : IsMarker(i)}
\* the k-th marker line
MarkerNo(k) == CHOOSE i \in Markers : Cardinality({m \in Markers : m <= i}) = k
\* the last line before the next marker
LastBeforeNext(i) ==
    IF \E m \in Markers : m > i
    THEN (CHOOSE m \in Markers : m > i /\ \A n \in Markers : n > i => m <= n) - 1
    ELSE Len(fed)

RECURSIVE BodyText(_, _)
\* the non-empty lines i..j, each followed by a space
BodyText(i, j) ==
    IF i > j THEN <<>>
    ELSE (IF LineAt(i) = <<>> THEN <<>> ELSE LineAt(i) \o <<" ">>)
            \o BodyText(i + 1, j)

\* C10: the units are the marker lines in reading order with the 1-based
\* page of the marker; a chapter's text is its line alone and it clears the
\* current article; an article's text is its line and every later non-empty
\* line up to the next marker; every other line is dropped.
C10_Structuring ==
    /\ Len(articles) = Cardinality(Markers)
    /\ \A k \in DOMAIN articles :
          LET i == MarkerNo(k)
          IN  /\ articles[k].page = fed[i].page + 1
              /\ IF HasGlyph(LineAt(i), "ZHANG")
                 THEN /\ articles[k].type = "chapter"
                      /\ articles[k].content = LineAt(i)
                 ELSE /\ articles[k].type = "article"
                      /\ articles[k].content = BodyText(i, LastBeforeNext(i))
    /\ current_article =
          IF articles # <<>> /\ articles[Len(articles)].type = "article"
          THEN Len(articles) ELSE 0

\* an article took a line of the next page, a chapter followed, and the line
\* after the chapter was dropped
C10_Witness ==
    /\ Len(fed) = 4
    /\ Len(articles) = 2
    /\ articles[1] = [type |-> "article", page |-> 1,
                      content |-> <<"DI","YI","TIAO","a"," ","b"," ">>]
    /\ articles[2] = [type |-> "chapter", page |-> 2,
                      content |-> <<"DI","YI","ZHANG">>]
    /\ fed[2].page = 1
    /\ fed[4].line = <<"b">>

=============================================================================
